---------------------------- MODULE Spec2Model ----------------------------
(***************************************************************************)
(* Model of src/main.py: the Telegram food-reservation bot.                *)
(*                                                                         *)
(* One EnhancedFoodReservationBot object serves every chat user.  Its      *)
(* state is the ConversationHandler state of each user (conv), the map     *)
(* user_sessions, the per-user dictionary context.user_data, the single    *)
(* FoodReservationAPI object api_client and the reviews table.  Updates    *)
(* are processed one after the other (Application.builder() is used with   *)
(* its defaults, create_application line 996), so each handler is one      *)
(* action; the answer of the portal to each HTTP request is an input of    *)
(* the action.  inflight lists the updates whose handler has started and   *)
(* waits for the portal; it is empty wherever handlers are single actions, *)
(* and the handlers are split into a start and an end where the order of   *)
(* the two among several updates is what is looked at.                     *)
(*                                                                         *)
(* started and shown describe the chat of each user: whether the bot has   *)
(* sent its menu, and the longest reservation list it has put on buttons.  *)
(* ev, calls and msg record what the handler that ran last was given, which*)
(* api_client methods it called and which texts it sent to the chat.       *)
(***************************************************************************)
EXTENDS Integers, Sequences, FiniteSets, TLC

VARIABLES conv, user_sessions, user_data, api_client, reviews, started,
          shown, ev, calls, msg, inflight

vars == <<conv, user_sessions, user_data, api_client, reviews, started,
          shown, ev, calls, msg, inflight>>

---------------------------------------------------------------------------
(* Bounds of the model *)

\* longest list of reservations the portal returns
MaxItems == 2
\* rows the reviews table may hold
MaxReviews == 1

\* rows the reviews table may hold when the table is used on its own
MaxRows == 3

\* handlers that may wait for the portal at the same time
MaxInFlight == 2

\* the chat users
Users == {1, 2}

---------------------------------------------------------------------------
(* Values *)

\* the reservation dicts the portal serves: 'id' and 'name' are the keys the
\* bot reads back (lines 674-676, 767, 835, 960-961).  The menu of the portal
\* has MaxItems foods.
FoodId(n) == "f" \o ToString(n)
Item(n) == [id |-> FoodId(n), name |-> "food " \o ToString(n)]
Menu == [n \in 1..MaxItems |-> Item(n)]

\* the foods of Menu from position n on that are in the set picked, in the
\* order of the menu
RECURSIVE Pick(_, _)
Pick(n, picked) ==
    IF n > MaxItems THEN <<>>
    ELSE IF n \in picked THEN <<Menu[n]>> \o Pick(n + 1, picked)
    ELSE Pick(n + 1, picked)

\* the lists the portal may return as 'data': any part of the menu
Catalogs == {Pick(1, picked) : picked \in SUBSET (1..MaxItems)}

\* A text message is a sequence of words and blanks.
Blank == " "

\* str.strip() (lines 895, 906): the text without its leading and trailing
\* blanks
RECURSIVE strip(_)
strip(text) ==
    IF text = <<>> THEN <<>>
    ELSE IF Head(text) = Blank THEN strip(Tail(text))
    ELSE IF text[Len(text)] = Blank THEN strip(SubSeq(text, 1, Len(text) - 1))
    ELSE text

\* what the user types as username and as password
Usernames == {<<"student">>}
Passwords == {<<"secret">>}

\* the texts a user may send while the bot waits for the username: the
\* username, the username between blanks, and blanks only
Typed == Usernames \cup {<<Blank, "student", Blank>>, <<Blank>>}

\* what the user types as review comment, after strip()
Comments == {"great"}

\* rating_1 .. rating_5 of get_rating_keyboard
MinRating == 1
MaxRating == 5
Ratings == MinRating..MaxRating

\* the rating buttons the users of the model press: the lowest and the
\* highest
Pressed == {MinRating, MaxRating}

\* the numbers a rating_<n> callback carries when the client sends data that
\* is on no button: int() of line 878 takes any of them; the model sends the
\* nearest below and above the keyboard's
OutOfRange == {MinRating - 1, MaxRating + 1}

\* Conversation states (line 46) and ConversationHandler.END
END == "END"
LOGIN_USERNAME == "LOGIN_USERNAME"
LOGIN_PASSWORD == "LOGIN_PASSWORD"
RESERVATION_SELECTION == "RESERVATION_SELECTION"
AI_HELP == "AI_HELP"
REVIEW_RATING == "REVIEW_RATING"
REVIEW_COMMENT == "REVIEW_COMMENT"
ConvStates == {END, LOGIN_USERNAME, LOGIN_PASSWORD, RESERVATION_SELECTION,
               AI_HELP, REVIEW_RATING, REVIEW_COMMENT}

\* callback_data of an inline button: "reserve_1" is B("reserve", 1); the
\* buttons without a number carry 0
B(k, i) == [k |-> k, i |-> i]

get_main_keyboard ==
    {B("login", 0), B("view_reservations", 0), B("ai_help", 0),
     B("my_reviews", 0), B("help", 0)}

get_back_keyboard == {B("back", 0)}

get_rating_keyboard ==
    {B("rating", r) : r \in Ratings} \cup {B("skip_review", 0)}

\* buttons of the reservation list (lines 672-688), of the detail view of a
\* reservation (lines 785-789) and of its reviews (lines 819-821), for a list
\* of n reservations
ListKeyboard(n) ==
    {B(k, i) : k \in {"reserve", "confirm", "view_reviews"}, i \in 0..(n - 1)}
        \cup {B("ai_help_reservations", 0), B("back", 0),
              B("view_reservations", 0)}

\* keyboard offered after a successful reservation (lines 845-848)
OfferKeyboard == {B("leave_review", 0), B("skip_review", 0)}

---------------------------------------------------------------------------
(* Answers of the portal *)

\* POST /api/auth/login: 200 with success true, 200 with success false,
\* another status, or an exception of the HTTP client
LoginResponses == {"ok", "refused", "status", "network"}

\* GET /api/reservations: 200 with JSON, another status, a body that is
\* no JSON, or an exception of the HTTP client
FetchTags == {"ok", "status", "malformed", "network"}

\* POST /api/reservations/create
ReserveResponses == {"ok", "refused", "status", "network"}

---------------------------------------------------------------------------
(* FoodReservationAPI *)

\* login(): True only for status 200 and result['success'] (lines 318-328)
login(resp) == resp = "ok"

\* the api_client object after login() ran for user u: create_session() set
\* self.session; the cookies of a successful login are those of u
ApiAfterLogin(u, resp) ==
    [session |-> TRUE,
     owner   |-> IF login(resp) THEN u ELSE api_client.owner]

\* what get_reservations() answers for the tag and the list of the portal
FetchResp(tag, data) ==
    IF ~api_client.session THEN "no_session" ELSE tag

\* get_reservations(): result['data'] for status 200, [] otherwise
\* (lines 332-347)
get_reservations(tag, data) ==
    IF ~api_client.session THEN <<>>
    ELSE IF tag = "ok" THEN data
    ELSE <<>>

ReserveResp(resp) ==
    IF ~api_client.session THEN "no_session" ELSE resp

\* success read off the HTTP status alone
make_reservation_ByStatus(resp) ==
    IF ~api_client.session THEN FALSE
    ELSE resp \in {"ok", "refused"}

\* make_reservation(): result['success'] for status 200, False otherwise
\* (lines 351-371)
make_reservation(resp) ==
    IF ~api_client.session THEN FALSE
    ELSE resp = "ok"

\* reservation_data of make_reservation() (lines 355-357): the JSON body of
\* the POST, the id of the reservation and nothing else of it
reservation_data(reservation_id) == [reservation_id |-> reservation_id]

\* the bodies make_reservation() posts: none without a session (line 353)
ReserveSent(reservation_id) ==
    IF ~api_client.session THEN <<>>
    ELSE <<reservation_data(reservation_id)>>

\* one entry of calls: the api_client method the handler of user u called,
\* the user whose login the cookies of api_client stem from, what the portal
\* answered ("no_session" when the method returned before any request), the
\* value the method returned (ret) and the reservation_id or the password it
\* was given (arg); the request to delete a message is an entry too
Call(op, u, resp, ret, arg) ==
    [op |-> op, user |-> u, owner |-> api_client.owner, resp |-> resp,
     ret |-> ret, arg |-> arg]

---------------------------------------------------------------------------
(* ReviewDatabase *)

\* CHECK (rating >= 1 AND rating <= 5) of the reviews table (line 114)
RatingCheck(rating) == rating >= MinRating /\ rating <= MaxRating

\* the row inserted whatever its rating
add_review_Unchecked(row) == Append(reviews, row)

\* add_review(): the row is inserted unless the table refuses it; the
\* statement is the only one of ReviewDatabase that writes, an INSERT
add_review(row) ==
    IF RatingCheck(row.rating) THEN Append(reviews, row) ELSE reviews

\* get_user_reviews()
get_user_reviews(u) == SelectSeq(reviews, LAMBDA r : r.user_id = u)

\* SUM(rating), MIN(rating) and MAX(rating) over rows
RECURSIVE SumRating(_)
SumRating(rows) ==
    IF rows = <<>> THEN 0 ELSE rows[1].rating + SumRating(Tail(rows))

MinOfRatings(rows) ==
    CHOOSE r \in {rows[k].rating : k \in DOMAIN rows} :
        \A k \in DOMAIN rows : r <= rows[k].rating

MaxOfRatings(rows) ==
    CHOOSE r \in {rows[k].rating : k \in DOMAIN rows} :
        \A k \in DOMAIN rows : r >= rows[k].rating

\* round(sum / count, 1) of line 219, in tenths: the nearest tenth, and of
\* two equally near ones the even one.  The mean of integers lies half-way
\* between two tenths only as x.25 or x.75, which a float holds exactly, so
\* that Python's round() sees the tie.
RoundTenths(sum, count) ==
    LET q == (10 * sum) \div count
        rem == (10 * sum) % count
    IN  IF 2 * rem < count THEN q
        ELSE IF 2 * rem > count THEN q + 1
        ELSE IF q % 2 = 0 THEN q
        ELSE q + 1

\* the statistics over all rows, without WHERE food_id = ?
get_food_stats_AllRows(food_id) ==
    IF reviews /= <<>>
    THEN [average_rating |-> RoundTenths(SumRating(reviews), Len(reviews)),
          total_reviews  |-> Len(reviews),
          min_rating     |-> MinOfRatings(reviews),
          max_rating     |-> MaxOfRatings(reviews)]
    ELSE [average_rating |-> 0, total_reviews |-> 0, min_rating |-> 0,
          max_rating |-> 0]

\* get_food_stats() (lines 202-233); average_rating is in tenths, 43 for 4.3
get_food_stats(food_id) ==
    LET rows == SelectSeq(reviews, LAMBDA r : r.food_id = food_id)
    IN  IF rows /= <<>>
        THEN [average_rating |-> RoundTenths(SumRating(rows), Len(rows)),
              total_reviews  |-> Len(rows),
              min_rating     |-> MinOfRatings(rows),
              max_rating     |-> MaxOfRatings(rows)]
        ELSE [average_rating |-> 0, total_reviews |-> 0, min_rating |-> 0,
              max_rating |-> 0]

\* the ratings of the rows added when the table is used on its own
StoreRatings == {2, 4, 5}

\* add_review() called with a row for food n and the rating given
StoreAdd(n, rating) ==
    /\ Len(reviews) < MaxRows
    /\ LET row == [user_id |-> 1, food_id |-> FoodId(n),
                   food_name |-> Item(n).name, rating |-> rating,
                   comment |-> ""]
       IN  /\ reviews' = add_review(row)
           /\ calls' = <<[op |-> "add_review", arg |-> FoodId(n),
                          ret |-> add_review(row) /= reviews]>>

\* get_food_stats() called for food n
StoreStats(n) ==
    /\ calls' = <<[op |-> "get_food_stats", arg |-> FoodId(n),
                   ret |-> get_food_stats(FoodId(n))]>>
    /\ UNCHANGED reviews

---------------------------------------------------------------------------
(* MultiModelGeminiAI *)

\* model_urls (lines 398-415), by the names of the models
model_urls ==
    <<"Gemini 2.5 Pro", "Gemini 2.5 Flash", "Gemini 2.0 Flash",
      "Gemini 1.5 Flash">>

\* What one POST to a model ends in: status 200 with a text that recommends
\* a food, status 200 with a text that holds one of the error indicators,
\* status 200 with an empty text, another status (a 200 without candidates
\* ends at the same return None, line 556), a body that is not the JSON
\* expected, or no answer within the timeout
ModelOutcomes ==
    {"answer", "error_answer", "empty_text", "status", "malformed", "timeout"}

\* the outcomes of the four models, for every combination and for the two
\* where all models answer and where none does
AllOutcomes == [DOMAIN model_urls -> ModelOutcomes]
SomeOutcomes == {[k \in DOMAIN model_urls |-> o] : o \in {"answer", "timeout"}}

\* two of the indicators of _is_error_response (lines 507-510)
error_indicators == {"error", "failed"}

\* texts are sequences of words
AnswerText == <<"take", "the", "rice">>
ErrorAnswerText == <<"the", "request", "failed">>

\* _call_gemini_api() (lines 513-563): the text of the first candidate for
\* status 200, None (the empty sequence here) for another status and after
\* any exception
_call_gemini_api(outcome) ==
    IF outcome = "answer" THEN <<AnswerText>>
    ELSE IF outcome = "error_answer" THEN <<ErrorAnswerText>>
    ELSE IF outcome = "empty_text" THEN << <<>> >>
    ELSE <<>>

\* no text taken for an error
_is_error_response_Never(response) == FALSE

\* _is_error_response() (lines 505-511)
_is_error_response(response) ==
    \E k \in DOMAIN response : response[k] \in error_indicators

\* the two kinds of text get_food_recommendation() returns from its loop:
\* the recommendation under the name of the model (line 493) and the static
\* text when every model failed (line 499)
ModelText(name, recommendation) ==
    [kind |-> "model", model |-> name, text |-> recommendation]
AllFailedText == [kind |-> "all_failed", model |-> "", text |-> <<>>]

\* what a loop without its last return hands back: None
NoText == [kind |-> "none", model |-> "", text |-> <<>>]

\* the loop ended without a text when every model failed
RECURSIVE TryModels_NoFallback(_, _, _)
TryModels_NoFallback(k, outcomes, called) ==
    IF k > Len(model_urls) THEN [ret |-> NoText, called |-> called]
    ELSE LET recommendation == _call_gemini_api(outcomes[k])
             call == [op |-> "_call_gemini_api", arg |-> model_urls[k],
                      resp |-> outcomes[k], ret |-> recommendation]
         IN  IF /\ recommendation /= <<>>
                /\ recommendation[1] /= <<>>
                /\ ~_is_error_response(recommendation[1])
             THEN [ret |-> ModelText(model_urls[k], recommendation[1]),
                   called |-> Append(called, call)]
             ELSE TryModels_NoFallback(k + 1, outcomes, Append(called, call))

\* The loop of get_food_recommendation() from model k on (lines 487-499),
\* after the _call_gemini_api() calls in called: the text returned and the
\* calls made, in their order
RECURSIVE TryModels(_, _, _)
TryModels(k, outcomes, called) ==
    IF k > Len(model_urls) THEN [ret |-> AllFailedText, called |-> called]
    ELSE LET recommendation == _call_gemini_api(outcomes[k])
             call == [op |-> "_call_gemini_api", arg |-> model_urls[k],
                      resp |-> outcomes[k], ret |-> recommendation]
         IN  IF /\ recommendation /= <<>>
                /\ recommendation[1] /= <<>>
                /\ ~_is_error_response(recommendation[1])
             THEN [ret |-> ModelText(model_urls[k], recommendation[1]),
                   called |-> Append(called, call)]
             ELSE TryModels(k + 1, outcomes, Append(called, call))

\* get_food_recommendation() (lines 417-503) for the outcomes the models
\* have in store.  The prompt is built from dicts and from ReviewDatabase
\* methods that catch their own exceptions, so the except of line 501 is not
\* entered for the reservations of Catalogs.
get_food_recommendation(outcomes) == TryModels(1, outcomes, <<>>)

---------------------------------------------------------------------------
(* EnhancedFoodReservationBot *)

NoSession == [logged_in |-> FALSE, username |-> <<>>]

\* the test left out, as in the reserve_ and confirm_ branches
IsLoggedIn_Unchecked(u) == TRUE

\* the test of lines 654, 699 and 723
IsLoggedIn(u) == user_sessions[u].logged_in

\* context.user_data of a user that stored nothing yet; a missing key is the
\* empty sequence
EmptyUserData ==
    [username |-> <<>>, reservations |-> <<>>, last_reservation |-> <<>>,
     review_rating |-> <<>>]

\* ev before any update: besides the user, the kind of update, the number of
\* the button and the answer of the portal, ev keeps what was stored as
\* last_reservation when the handler started (pending), how far the user
\* is into leaving a detail view by the back button (trail) and which
\* reservation the detail view opened last showed (detail)
NoEvent ==
    [user |-> 0, kind |-> "none", idx |-> 0, resp |-> "none",
     pending |-> <<>>, trail |-> "none", detail |-> <<>>]

Init ==
    /\ conv = [u \in Users |-> END]
    /\ user_sessions = [u \in Users |-> NoSession]
    /\ user_data = [u \in Users |-> EmptyUserData]
    /\ api_client = [session |-> FALSE, owner |-> 0]
    /\ reviews = <<>>
    /\ started = [u \in Users |-> FALSE]
    /\ shown = [u \in Users |-> 0]
    /\ ev = NoEvent
    /\ calls = <<>>
    /\ msg = <<>>
    /\ inflight = <<>>

\* The buttons on the messages of the chat of user u.  A button stays on
\* its message until that message is edited, and the chat holds several
\* messages of the bot: every /start and every text handler sends a new one
\* (a login leaves three, the two with the back button lead back to the
\* menu), and a press edits only the message it was made on.  So every
\* keyboard the bot has sent may still be on some message: the menu and the
\* back button once the bot has answered /start, the buttons of the longest
\* reservation list shown, with those of the detail view each of its
\* reserve_ buttons opened, and the review buttons once a reservation
\* succeeded (last_reservation is set exactly then and never removed).
Screen(u) ==
    (IF started[u] THEN get_main_keyboard \cup get_back_keyboard ELSE {})
        \cup (IF shown[u] > 0 THEN ListKeyboard(shown[u]) ELSE {})
        \cup (IF user_data[u].last_reservation /= <<>>
              THEN OfferKeyboard \cup get_rating_keyboard ELSE {})

\* Where the user stands after this update, for a press of back: the detail
\* view of a reservation is on the screen after a reserve_ press with an index
\* of the stored list (lines 765-795); "back" is that view left by one press
\* of back, "back_back" by two presses in a row (lines 754-759)
Trail(u, kind, idx) ==
    IF kind = "reserve" /\ idx < Len(user_data[u].reservations)
    THEN "item_detail"
    ELSE IF kind = "back" /\ ev.user = u /\ ev.trail = "item_detail"
    THEN "back"
    ELSE IF kind = "back" /\ ev.user = u /\ ev.trail = "back"
    THEN "back_back"
    ELSE "none"

\* The detail view opened last: a reserve_ press with an index of the stored
\* list shows that reservation with its confirm_ button (lines 765-795).
\* The message stays in the chat while the user fetches the reservations
\* from another message.
Detail(u, kind, idx) ==
    IF kind = "reserve" /\ idx < Len(user_data[u].reservations)
    THEN <<[idx |-> idx, item |-> user_data[u].reservations[idx + 1]]>>
    ELSE IF kind = "view_reservations" /\ ev.user = u
    THEN ev.detail
    ELSE <<>>

\* inflight once the handler of an update has returned: without the first
\* entry of that update
RECURSIVE Finished(_, _)
Finished(waiting, update) ==
    IF waiting = <<>> THEN <<>>
    ELSE IF Head(waiting) = update THEN Tail(waiting)
    ELSE <<Head(waiting)>> \o Finished(Tail(waiting), update)

\* what every handler does: the state it returns becomes the conversation
\* state of the user, and the event, the api_client calls and the texts are
\* recorded
Handled(u, kind, idx, resp, state, texts, called) ==
    /\ conv' = [conv EXCEPT ![u] = state]
    /\ ev' = [user |-> u, kind |-> kind, idx |-> idx, resp |-> resp,
              pending |-> user_data[u].last_reservation,
              trail |-> Trail(u, kind, idx),
              detail |-> Detail(u, kind, idx)]
    /\ calls' = called
    /\ msg' = texts
    /\ inflight' = Finished(inflight, [user |-> u, kind |-> kind, idx |-> idx])

\* /start: an entry point, so only outside a conversation; start() returns
\* None, which starts no conversation
start(u) ==
    /\ conv[u] = END
    /\ Handled(u, "start", 0, "none", END, <<"welcome">>, <<>>)
    /\ started' = [started EXCEPT ![u] = TRUE]
    /\ UNCHANGED <<user_sessions, user_data, api_client, reviews, shown>>

\* /cancel: a fallback, so only inside a conversation
cancel(u) ==
    /\ conv[u] /= END
    /\ Handled(u, "cancel", 0, "none", END, <<"welcome">>, <<>>)
    /\ UNCHANGED <<user_sessions, user_data, api_client, reviews, started, shown>>


\* data == 'login' (lines 646-651)
btn_login(u) ==
    /\ Handled(u, "login", 0, "none", LOGIN_USERNAME,
               <<"login_prompt">>, <<>>)
    /\ UNCHANGED <<user_sessions, user_data, api_client, reviews, started, shown>>

\* data == 'view_reservations' without a logged-in session (lines 654-659)
btn_view_reservations_refused(u) ==
    /\ ~IsLoggedIn(u)
    /\ Handled(u, "view_reservations", 0, "none", END,
               <<"login_first">>, <<>>)
    /\ UNCHANGED <<user_sessions, user_data, api_client, reviews, started, shown>>

\* what the view_reservations branch sends when get_reservations() returned
\* an empty list (lines 661-668)
NoReservationsTexts == <<"processing", "no_reservations">>

\* data == 'view_reservations' with a logged-in session (lines 661-696)
btn_view_reservations_fetch(u, tag, data) ==
    /\ IsLoggedIn(u)
    /\ LET reservations == get_reservations(tag, data)
           called == <<Call("get_reservations", u, FetchResp(tag, data),
                            reservations, "")>>
       IN  IF reservations = <<>>
           THEN /\ Handled(u, "view_reservations", 0, FetchResp(tag, data), END,
                           NoReservationsTexts, called)
                /\ UNCHANGED <<user_data, shown>>
           ELSE /\ Handled(u, "view_reservations", 0, FetchResp(tag, data),
                           RESERVATION_SELECTION,
                           <<"processing", "select_reservation">>, called)
                /\ user_data' = [user_data EXCEPT ![u].reservations = reservations]
                /\ shown' = [shown EXCEPT
                               ![u] = IF Len(reservations) > @
                                      THEN Len(reservations) ELSE @]
    /\ UNCHANGED <<user_sessions, api_client, reviews, started>>

btn_view_reservations(u) ==
    \/ btn_view_reservations_refused(u)
    \/ \E data \in Catalogs : btn_view_reservations_fetch(u, "ok", data)
    \/ \E tag \in FetchTags \ {"ok"} : btn_view_reservations_fetch(u, tag, <<>>)

\* data == 'ai_help' or 'ai_help_reservations' (lines 698-720)
btn_ai_help_refused(u) ==
    /\ ~IsLoggedIn(u)
    /\ Handled(u, "ai_help", 0, "none", END, <<"login_first">>, <<>>)
    /\ UNCHANGED <<user_sessions, user_data, api_client, reviews, started, shown>>

\* with reservations the models are asked, and the text returned is sent
\* under the ai_recommendation heading (lines 709-714)
btn_ai_help_fetch(u, tag, data, outcomes) ==
    /\ IsLoggedIn(u)
    /\ LET reservations == get_reservations(tag, data)
           fetched == <<Call("get_reservations", u, FetchResp(tag, data),
                             reservations, "")>>
           asked == get_food_recommendation(outcomes)
       IN  IF reservations /= <<>>
           THEN Handled(u, "ai_help", 0, FetchResp(tag, data), END,
                        <<"ai_help_prompt", "ai_recommendation">>,
                        fetched \o asked.called
                          \o <<[op |-> "get_food_recommendation", arg |-> "",
                                resp |-> "none", ret |-> asked.ret]>>)
           ELSE Handled(u, "ai_help", 0, FetchResp(tag, data), END,
                        <<"ai_help_prompt", "no_reservations">>, fetched)
    /\ UNCHANGED <<user_sessions, user_data, api_client, reviews, started, shown>>

\* the branch when the portal serves one of the lists in served and the
\* models have one of the outcomes in asked; without reservations no model
\* is asked
btn_ai_help(u, served, asked) ==
    \/ btn_ai_help_refused(u)
    \/ \E data \in served \ {<<>>}, outcomes \in asked :
          btn_ai_help_fetch(u, "ok", data, outcomes)
    \/ \E tag \in FetchTags : btn_ai_help_fetch(u, tag, <<>>, <<>>)

\* data == 'my_reviews' (lines 722-752)
btn_my_reviews(u) ==
    /\ Handled(u, "my_reviews", 0, "none", END,
               IF ~IsLoggedIn(u) THEN <<"login_first">>
               ELSE IF get_user_reviews(u) = <<>> THEN <<"no_user_reviews">>
               ELSE <<"your_reviews">>,
               <<>>)
    /\ UNCHANGED <<user_sessions, user_data, api_client, reviews, started, shown>>

\* data == 'back' (lines 754-759)
btn_back(u) ==
    /\ Handled(u, "back", 0, "none", END, <<"welcome">>, <<>>)
    /\ UNCHANGED <<user_sessions, user_data, api_client, reviews, started, shown>>

\* reservation_index < len(reservations) (lines 765, 801, 833)
IndexValid(i, reservations) == i < Len(reservations)

\* what the reserve_, view_reviews_ and confirm_ branches send when the index
\* is outside the stored list: nothing (the if of lines 765, 801 and 833 has
\* no else)
StaleTexts == <<>>

\* data == 'reserve_<i>' (lines 761-795)
btn_reserve(u, i) ==
    LET reservations == user_data[u].reservations
    IN  /\ IF IndexValid(i, reservations)
           THEN Handled(u, "reserve", i, "none", RESERVATION_SELECTION,
                        <<"food_details">>, <<>>)
           ELSE Handled(u, "reserve", i, "none", RESERVATION_SELECTION,
                        StaleTexts, <<>>)
        /\ UNCHANGED <<user_sessions, user_data, api_client, reviews, started, shown>>

\* data == 'view_reviews_<i>' (lines 797-827)
btn_view_reviews(u, i) ==
    LET reservations == user_data[u].reservations
    IN  /\ IF IndexValid(i, reservations)
           THEN Handled(u, "view_reviews", i, "none", RESERVATION_SELECTION,
                        <<"reviews_for_food">>, <<>>)
           ELSE Handled(u, "view_reviews", i, "none", RESERVATION_SELECTION,
                        StaleTexts, <<>>)
        /\ UNCHANGED <<user_sessions, user_data, api_client, reviews, started, shown>>

\* data == 'confirm_<i>' with an index outside the stored list (lines 829-833,
\* 861)
btn_confirm_stale(u, i) ==
    /\ ~IndexValid(i, user_data[u].reservations)
    /\ Handled(u, "confirm", i, "none", END, StaleTexts, <<>>)
    /\ UNCHANGED <<user_sessions, user_data, api_client, reviews, started, shown>>

\* the review offered whatever make_reservation() returned
ConfirmState_AlwaysReview(success) == REVIEW_RATING

\* the state the confirm branch returns after make_reservation()
\* (lines 854, 861)
ConfirmState(success) == IF success THEN REVIEW_RATING ELSE END

\* the reservation stored for the review before the result is tested
ConfirmUserData_StoreFirst(u, reservation, success) ==
    [user_data EXCEPT ![u].last_reservation = <<reservation>>]

\* a reservation that waits for its review kept when another one succeeds
ConfirmUserData_KeepPending(u, reservation, success) ==
    IF success /\ user_data[u].last_reservation = <<>>
    THEN [user_data EXCEPT ![u].last_reservation = <<reservation>>]
    ELSE user_data

\* context.user_data after make_reservation(): the reservation is stored for
\* the review only after a success (lines 841-843)
ConfirmUserData(u, reservation, success) ==
    IF success
    THEN [user_data EXCEPT ![u].last_reservation = <<reservation>>]
    ELSE user_data

\* the texts of the confirm branch (lines 837, 850-858)
ConfirmTexts(success) ==
    IF success THEN <<"processing", "reservation_success">>
    ELSE <<"processing", "reservation_failed">>

\* data == 'confirm_<i>' with an index of the stored list (lines 829-861)
btn_confirm_submit(u, i, resp) ==
    /\ IndexValid(i, user_data[u].reservations)
    /\ LET reservation == user_data[u].reservations[i + 1]
           reservation_id == reservation.id
           success == make_reservation(resp)
           called == <<Call("make_reservation", u, ReserveResp(resp), success,
                            reservation_id)
                         @@ [sent |-> ReserveSent(reservation_id)]>>
       IN  /\ Handled(u, "confirm", i, ReserveResp(resp), ConfirmState(success),
                      ConfirmTexts(success), called)
           /\ user_data' = ConfirmUserData(u, reservation, success)
    /\ UNCHANGED <<user_sessions, api_client, reviews, started, shown>>

btn_confirm(u, i) ==
    \/ btn_confirm_stale(u, i)
    \/ \E resp \in ReserveResponses : btn_confirm_submit(u, i, resp)

\* data == 'leave_review' (lines 863-868)
btn_leave_review(u) ==
    /\ Handled(u, "leave_review", 0, "none", REVIEW_RATING,
               <<"rating_prompt">>, <<>>)
    /\ UNCHANGED <<user_sessions, user_data, api_client, reviews, started, shown>>

\* data == 'skip_review' (lines 870-875)
btn_skip_review(u) ==
    /\ Handled(u, "skip_review", 0, "none", END,
               <<"welcome">>, <<>>)
    /\ UNCHANGED <<user_sessions, user_data, api_client, reviews, started, shown>>

\* data == 'rating_<r>' (lines 877-885)
btn_rating(u, r) ==
    /\ Handled(u, "rating", r, "none", REVIEW_COMMENT,
               <<"comment_prompt">>, <<>>)
    /\ user_data' = [user_data EXCEPT ![u].review_rating = <<r>>]
    /\ UNCHANGED <<user_sessions, api_client, reviews, started, shown>>

\* data == 'help' (lines 887-889): help_command() reads update.message,
\* which is None for a button press, so the handler raises before it sends
\* anything and the conversation state stays as it was
btn_help(u) ==
    /\ Handled(u, "help", 0, "fault", conv[u], <<>>, <<>>)
    /\ UNCHANGED <<user_sessions, user_data, api_client, reviews, started, shown>>

\* button_handler (lines 638-891), registered as entry point, in every
\* state and as fallback: it runs for every button on the user's screen.
\* For an ai_help press the portal serves its whole menu, and the models all
\* answer or all run into the timeout; of the rating buttons the last is
\* pressed here, the others where the review is looked at (NextReview).
button_handler(u) ==
    \E b \in Screen(u) :
        \/ b.k = "login" /\ btn_login(u)
        \/ b.k = "view_reservations" /\ btn_view_reservations(u)
        \/ b.k \in {"ai_help", "ai_help_reservations"}
              /\ btn_ai_help(u, {Pick(1, 1..MaxItems)}, SomeOutcomes)
        \/ b.k = "my_reviews" /\ btn_my_reviews(u)
        \/ b.k = "back" /\ btn_back(u)
        \/ b.k = "reserve" /\ btn_reserve(u, b.i)
        \/ b.k = "view_reviews" /\ btn_view_reviews(u, b.i)
        \/ b.k = "confirm" /\ btn_confirm(u, b.i)
        \/ b.k = "leave_review" /\ btn_leave_review(u)
        \/ b.k = "skip_review" /\ btn_skip_review(u)
        \/ b.k = "rating" /\ b.i = MaxRating /\ btn_rating(u, b.i)
        \/ b.k = "help" /\ btn_help(u)

\* username_handler (lines 893-902): a text message in LOGIN_USERNAME
username_handler(u, text) ==
    /\ conv[u] = LOGIN_USERNAME
    /\ Handled(u, "username", 0, "none", LOGIN_PASSWORD,
               <<"password_prompt">>, <<>>)
    /\ user_data' = [user_data EXCEPT ![u].username = <<strip(text)>>]
    /\ UNCHANGED <<user_sessions, api_client, reviews, started, shown>>

\* the user_sessions entry a successful login stores (lines 924-928);
\* login_time is a wall-clock reading and is left out
NewSession(username) == [logged_in |-> TRUE, username |-> username]

\* the map replaced by one that holds the user logged in last
LoginSessions_OnlyLastUser(u, username, success) ==
    IF success
    THEN [v \in Users |-> IF v = u THEN NewSession(username) ELSE NoSession]
    ELSE user_sessions

\* the entry of the user removed after a failed login
LoginSessions_ResetOnFailure(u, username, success) ==
    IF success
    THEN [user_sessions EXCEPT ![u] = NewSession(username)]
    ELSE [user_sessions EXCEPT ![u] = NoSession]

\* user_sessions after login() for user u (lines 922-928): an entry is
\* stored after a success, and nothing is touched after a failure
LoginSessions(u, username, success) ==
    IF success
    THEN [user_sessions EXCEPT ![u] = NewSession(username)]
    ELSE user_sessions

\* the texts of password_handler (lines 917, 930-938)
LoginTexts(success) ==
    IF success THEN <<"processing", "login_success">>
    ELSE <<"processing", "login_failed">>

\* login() called again after a network fault
LoginCalls_RetryOnFault(u, password, resp) ==
    IF resp = "network"
    THEN <<Call("login", u, resp, login(resp), password),
           Call("login", u, resp, login(resp), password)>>
    ELSE <<Call("login", u, resp, login(resp), password)>>

\* the login() calls of password_handler (line 920): one, whatever it returns
LoginCalls(u, password, resp) ==
    <<Call("login", u, resp, login(resp), password)>>

\* the password message deleted only once the login has succeeded
PasswordCalls_DeleteOnSuccess(u, password, deleted, resp) ==
    LoginCalls(u, password, resp)
        \o (IF login(resp)
            THEN <<Call("message.delete", u, "none", deleted, "")>>
            ELSE <<>>)

\* what password_handler calls, in order (lines 910-920):
\* update.message.delete(), whose failure the bare except swallows
\* (deleted tells whether Telegram deleted the message), then login()
PasswordCalls(u, password, deleted, resp) ==
    <<Call("message.delete", u, "none", deleted, "")>>
        \o LoginCalls(u, password, resp)

\* password_handler (lines 904-940): a text message in LOGIN_PASSWORD
password_handler(u, text, deleted, resp) ==
    /\ conv[u] = LOGIN_PASSWORD
    /\ LET password == strip(text)
           username == user_data[u].username
           success == login(resp)
           called == PasswordCalls(u, password, deleted, resp)
       IN  /\ api_client' = ApiAfterLogin(u, resp)
           /\ user_sessions' = LoginSessions(u, username, success)
           /\ Handled(u, "password", 0, resp, END, LoginTexts(success), called)
    /\ UNCHANGED <<user_data, reviews, started, shown>>

\* the rating of the row taken from the default, not from the pressed button
ReviewRow_DefaultRating(u, comment) ==
    LET reservation == user_data[u].last_reservation
    IN  [user_id   |-> u,
         food_id   |-> IF reservation = <<>> THEN "" ELSE reservation[1].id,
         food_name |-> IF reservation = <<>> THEN "unknown"
                       ELSE reservation[1].name,
         rating    |-> MaxRating,
         comment   |-> comment]

\* the row review_comment_handler hands to add_review() (lines 956-971):
\* last_reservation and review_rating as context.user_data holds them, with
\* the defaults {} and 5 of the two get() calls
ReviewRow(u, comment) ==
    LET reservation == user_data[u].last_reservation
        rating == IF user_data[u].review_rating = <<>> THEN MaxRating
                  ELSE user_data[u].review_rating[1]
    IN  [user_id   |-> u,
         food_id   |-> IF reservation = <<>> THEN "" ELSE reservation[1].id,
         food_name |-> IF reservation = <<>> THEN "unknown"
                       ELSE reservation[1].name,
         rating    |-> rating,
         comment   |-> comment]

\* review_comment_handler (lines 942-984): a text message in REVIEW_COMMENT
\* that is no command.  The table of the model holds MaxReviews rows.
review_comment_handler(u, comment) ==
    /\ conv[u] = REVIEW_COMMENT
    /\ Len(add_review(ReviewRow(u, comment))) <= MaxReviews
    /\ LET row == ReviewRow(u, comment)
           success == add_review(row) /= reviews
       IN  /\ reviews' = add_review(row)
           /\ Handled(u, "comment", 0, "none", END,
                      IF success THEN <<"review_saved">> ELSE <<"error">>, <<>>)
    /\ UNCHANGED <<user_sessions, user_data, api_client, started, shown>>

\* The message /skip in REVIEW_COMMENT.  It is a bot command, so
\* filters.TEXT & ~filters.COMMAND keeps it from review_comment_handler
\* (line 1023), and the only command among the fallbacks is /cancel
\* (line 1028): no handler runs, nothing is sent and the conversation stays
\* where it was.  The comparison with '/skip' of line 949 is never reached
\* with a true outcome.
skip_command(u) ==
    /\ conv[u] = REVIEW_COMMENT
    /\ Handled(u, "skip_command", 0, "none", conv[u], <<>>, <<>>)
    /\ UNCHANGED <<user_sessions, user_data, api_client, reviews, started, shown>>

\* every update the bot handles for user u
Update(u) ==
    \/ start(u)
    \/ cancel(u)
    \/ button_handler(u)
    \/ \E text \in Usernames : username_handler(u, text)
    \/ \E text \in Passwords, deleted \in BOOLEAN, resp \in LoginResponses :
          password_handler(u, text, deleted, resp)
    \/ \E comment \in Comments : review_comment_handler(u, comment)

\* The workflow of one user.  A handler reads and writes the entries of its
\* own user only, and of what the users share (api_client, reviews) no
\* handler reads anything another user's events change except the rows of
\* the reviews table, so the events of one user show every state the
\* workflow of a user can be in.
Next == \E u \in {1} : Update(u)

Spec == Init /\ [][Next]_vars

\* Several users and the one api_client they share: logging in, fetching the
\* reservations and confirming one.
NextShared ==
    \E u \in Users :
        \/ start(u)
        \/ B("login", 0) \in Screen(u) /\ btn_login(u)
        \/ \E text \in Usernames : username_handler(u, text)
        \/ \E text \in Passwords, resp \in LoginResponses :
              password_handler(u, text, TRUE, resp)
        \/ B("view_reservations", 0) \in Screen(u) /\ btn_view_reservations(u)
        \/ \E b \in Screen(u) : b.k = "confirm" /\ btn_confirm(u, b.i)

SpecShared == Init /\ [][NextShared]_vars

\* updates handled at the same time
concurrent_updates_On == TRUE

\* Application.builder().token(self.token).build() (line 996) leaves
\* concurrent_updates at its default: the application awaits the handler of
\* an update before it takes the next update off the queue.  No handler is
\* registered with block=False (lines 999-1031).
concurrent_updates == FALSE

\* the application may hand the next update to its handler
MayProcess == concurrent_updates \/ inflight = <<>>

\* The handler of an update that calls the portal starts: it has read what
\* it needs and waits for the answer of login(), get_reservations() or
\* make_reservation() (lines 920, 661, 839).
Begin(u, kind, idx) ==
    /\ MayProcess
    /\ Len(inflight) < MaxInFlight
    /\ inflight' = Append(inflight, [user |-> u, kind |-> kind, idx |-> idx])
    /\ UNCHANGED <<conv, user_sessions, user_data, api_client, reviews,
                   started, shown, ev, calls, msg>>

\* The portal answers and the handler that waited runs to its end.
Complete(update) ==
    \/ /\ update.kind = "password"
       /\ \E text \in Passwords, resp \in LoginResponses :
             password_handler(update.user, text, TRUE, resp)
    \/ /\ update.kind = "view_reservations"
       /\ btn_view_reservations(update.user)
    \/ /\ update.kind = "confirm"
       /\ btn_confirm(update.user, update.idx)

\* The updates of a user as the application takes them off its queue: the
\* handlers that call the portal in two steps, the others in one.
NextDispatch ==
    \/ \E u \in {1} :
          \/ MayProcess /\ start(u)
          \/ MayProcess /\ B("login", 0) \in Screen(u) /\ btn_login(u)
          \/ MayProcess /\ \E text \in Usernames : username_handler(u, text)
          \/ conv[u] = LOGIN_PASSWORD /\ Begin(u, "password", 0)
          \/ B("view_reservations", 0) \in Screen(u)
                /\ Begin(u, "view_reservations", 0)
          \/ \E b \in Screen(u) : b.k = "confirm" /\ Begin(u, "confirm", b.i)
    \/ \E k \in DOMAIN inflight : Complete(inflight[k])

SpecDispatch == Init /\ [][NextDispatch]_vars

\* The user_sessions map under the updates of several users: logins that
\* succeed and fail, back and /cancel, fetches of the whole menu and
\* fetches that fail, and reservations the portal does not accept.
NextSessions ==
    \E u \in Users :
        \/ start(u)
        \/ cancel(u)
        \/ B("login", 0) \in Screen(u) /\ btn_login(u)
        \/ B("back", 0) \in Screen(u) /\ btn_back(u)
        \/ \E text \in Usernames : username_handler(u, text)
        \/ \E text \in Passwords, resp \in {"ok", "refused", "network"} :
              password_handler(u, text, TRUE, resp)
        \/ B("view_reservations", 0) \in Screen(u)
              /\ \/ btn_view_reservations_refused(u)
                 \/ btn_view_reservations_fetch(u, "ok", Pick(1, 1..MaxItems))
                 \/ btn_view_reservations_fetch(u, "network", <<>>)
        \/ B("confirm", 0) \in Screen(u)
              /\ btn_confirm_submit(u, 0, "refused")

SpecSessions == Init /\ [][NextSessions]_vars

\* The login: a user that types the username and the password, with blanks
\* around the username or nothing else, whether or not Telegram deletes the
\* password message, and with every answer of the portal; then the user
\* fetches the reservations.
NextLogin ==
    \E u \in {1} :
        \/ start(u)
        \/ cancel(u)
        \/ B("login", 0) \in Screen(u) /\ btn_login(u)
        \/ B("back", 0) \in Screen(u) /\ btn_back(u)
        \/ \E text \in Typed : username_handler(u, text)
        \/ \E text \in Passwords, deleted \in BOOLEAN, resp \in LoginResponses :
              password_handler(u, text, deleted, resp)
        \/ B("view_reservations", 0) \in Screen(u) /\ btn_view_reservations(u)

SpecLogin == Init /\ [][NextLogin]_vars

\* The recommendation: a user that logs in, fetches the reservations and
\* asks for the recommendation, with every combination of outcomes of the
\* four models; the portal serves its whole menu.
NextAI ==
    \E u \in {1} :
        \/ start(u)
        \/ B("login", 0) \in Screen(u) /\ btn_login(u)
        \/ \E text \in Usernames : username_handler(u, text)
        \/ \E text \in Passwords, resp \in LoginResponses :
              password_handler(u, text, TRUE, resp)
        \/ B("view_reservations", 0) \in Screen(u)
              /\ btn_view_reservations_fetch(u, "ok", Pick(1, 1..MaxItems))
        \/ B("ai_help", 0) \in Screen(u)
              /\ btn_ai_help(u, {Pick(1, 1..MaxItems)}, AllOutcomes)

SpecAI == Init /\ [][NextAI]_vars

\* The review of a reservation: a user that logs in, fetches the
\* reservations, confirms one and rates it, with the callbacks of the
\* buttons of the chat and the leave_review and rating_<n> callbacks of no
\* button of the chat (callback data is the client's to send, and in a group
\* chat the buttons of a message are every member's to press), and with the
\* command /skip.
NextReview ==
    \E u \in {1} :
        \/ start(u)
        \/ cancel(u)
        \/ B("login", 0) \in Screen(u) /\ btn_login(u)
        \/ \E text \in Usernames : username_handler(u, text)
        \/ \E text \in Passwords : password_handler(u, text, TRUE, "ok")
        \/ B("view_reservations", 0) \in Screen(u)
              /\ \E data \in Catalogs : btn_view_reservations_fetch(u, "ok", data)
        \/ \E b \in Screen(u) : b.k = "confirm" /\ btn_confirm(u, b.i)
        \/ B("back", 0) \in Screen(u) /\ btn_back(u)
        \/ B("leave_review", 0) \in Screen(u) /\ btn_leave_review(u)
        \/ B("skip_review", 0) \in Screen(u) /\ btn_skip_review(u)
        \/ \E b \in Screen(u) :
              b.k = "rating" /\ b.i \in Pressed /\ btn_rating(u, b.i)
        \/ started[u] /\ \E r \in OutOfRange \cup Pressed : btn_rating(u, r)
        \/ started[u] /\ btn_leave_review(u)
        \/ skip_command(u)
        \/ \E comment \in Comments : review_comment_handler(u, comment)

SpecReview == Init /\ [][NextReview]_vars

\* The reviews table on its own: rows of any food are added and the
\* statistics of any food are read.
NextStore ==
    /\ \/ \E n \in 1..MaxItems, rating \in StoreRatings : StoreAdd(n, rating)
       \/ \E n \in 1..MaxItems : StoreStats(n)
    /\ UNCHANGED <<conv, user_sessions, user_data, api_client, started, shown,
                   ev, msg, inflight>>

SpecStore == Init /\ [][NextStore]_vars

---------------------------------------------------------------------------
(* Claims *)

\* the last text the handler that ran last sent
LastText == IF msg = <<>> THEN "" ELSE msg[Len(msg)]

\* C1: every get_reservations and make_reservation call made for a user goes
\* out with the cookies of that user's own login; the handle of one user is
\* never used for another.
C1_HandleOfOwnLogin ==
    \A k \in DOMAIN calls :
        calls[k].op \in {"get_reservations", "make_reservation"}
            => calls[k].owner = calls[k].user

\* C2: after a password message whose login failed the user is anonymous:
\* not logged in, and the username typed before is gone.
C2_FailedLoginIsAnonymous ==
    (ev.kind = "password" /\ ev.resp /= "ok")
        => /\ ~user_sessions[ev.user].logged_in
           /\ user_data[ev.user].username = <<>>

\* C3: a user is logged in exactly when the conversation is past the
\* credentials: a logged-in user is never asked for username or password, and
\* a user that is not logged in is in none of the reservation or review states.
C3_LoggedInIffPastCredentials ==
    \A u \in Users :
        user_sessions[u].logged_in
            <=> (conv[u] \notin {LOGIN_USERNAME, LOGIN_PASSWORD}
                 /\ (conv[u] = END => user_sessions[u].logged_in))

\* C4: a view_reservations press of a user that is not logged in calls no
\* api_client method, leaves the user without stored reservations and outside
\* the reservation states, and answers with the request to log in first.
C4_ViewRefusedWithoutLogin ==
    (ev.kind = "view_reservations" /\ ~user_sessions[ev.user].logged_in)
        => /\ calls = <<>>
           /\ user_data[ev.user].reservations = <<>>
           /\ conv[ev.user] = END
           /\ msg = <<"login_first">>

C4_Witness ==
    /\ ev.kind = "view_reservations"
    /\ ~user_sessions[ev.user].logged_in
    /\ msg = <<"login_first">>

\* C5: a get_reservations call that failed returns something else than the
\* empty list a successful fetch of nothing returns, and the user is shown
\* something else than the text for no reservations.
C5_FailedFetchNotEmptyCatalog ==
    \A k \in DOMAIN calls :
        (calls[k].op = "get_reservations" /\ calls[k].resp /= "ok")
            => /\ calls[k].ret /= <<>>
               /\ LastText /= "no_reservations"

\* C6: make_reservation returns True only for a response whose body says
\* success; after a 200 response whose body says failure the call returned
\* False, the conversation is not in REVIEW_RATING and last_reservation is what
\* it was before.
C6_SuccessOnlyByBody ==
    /\ [](\A k \in DOMAIN calls :
            (calls[k].op = "make_reservation" /\ calls[k].ret)
                => calls[k].resp = "ok")
    /\ [][(ev'.kind = "confirm" /\ ev'.resp = "refused")
            => /\ calls'[1].ret = FALSE
               /\ conv'[ev'.user] /= REVIEW_RATING
               /\ user_data'[ev'.user].last_reservation
                    = user_data[ev'.user].last_reservation]_vars

C6_Witness ==
    /\ ev.kind = "confirm"
    /\ ev.resp = "refused"
    /\ conv[ev.user] = END

\* C7: a confirm press with an index of the stored list sends exactly one
\* make_reservation request, for the reservation at that index; if it returned
\* True the conversation is in REVIEW_RATING and that reservation is stored
\* for the review, otherwise the conversation is over and the user is still
\* logged in.
C7_ConfirmBranchesOnResult ==
    [][(ev'.kind = "confirm"
          /\ ev'.idx < Len(user_data[ev'.user].reservations))
        => LET u == ev'.user
               reservation == user_data[u].reservations[ev'.idx + 1]
           IN  /\ Len(calls') = 1
               /\ calls'[1].op = "make_reservation"
               /\ calls'[1].resp \in ReserveResponses
               /\ calls'[1].arg = reservation.id
               /\ IF calls'[1].ret
                  THEN /\ calls'[1].resp = "ok"
                       /\ conv'[u] = REVIEW_RATING
                       /\ user_data'[u].last_reservation = <<reservation>>
                  ELSE /\ calls'[1].resp /= "ok"
                       /\ conv'[u] = END
                       /\ user_sessions'[u].logged_in]_vars

C7_Witness ==
    /\ ev.kind = "confirm"
    /\ ev.resp = "ok"
    /\ conv[ev.user] = REVIEW_RATING
    /\ user_data[ev.user].last_reservation
         = <<user_data[ev.user].reservations[ev.idx + 1]>>

C9_NetworkFaultHasOwnText ==
    /\ (ev.kind = "password" /\ ev.resp = "network")
          => LastText /= LoginTexts(FALSE)[2]
    /\ (ev.kind = "confirm" /\ ev.resp = "network")
          => LastText /= ConfirmTexts(FALSE)[2]

\* C10: a reserve_, view_reviews_ or confirm_ press with an index outside the
\* stored list calls no api_client method, changes neither the conversation
\* state nor user_sessions nor user_data, and sends a text to the user.
C10_StalePressIsAnsweredNoOp ==
    [][(ev'.kind \in {"reserve", "view_reviews", "confirm"}
          /\ ~(ev'.idx < Len(user_data[ev'.user].reservations)))
        => /\ calls' = <<>>
           /\ conv' = conv
           /\ user_sessions' = user_sessions
           /\ user_data' = user_data
           /\ msg' /= <<>>]_vars

\* C11: a rating_<n> callback with n outside 1..5 changes nothing: user_data
\* and the conversation state stay as they were, so the conversation does not
\* move on to REVIEW_COMMENT; with n in 1..5 the rating is stored as
\* review_rating and the conversation is in REVIEW_COMMENT.
C11_OutOfRangeRatingRejected ==
    [][\A u \in Users :
        (ev'.user = u /\ ev'.kind = "rating")
        => IF ev'.idx \in Ratings
           THEN /\ user_data'[u].review_rating = <<ev'.idx>>
                /\ conv'[u] = REVIEW_COMMENT
           ELSE /\ user_data' = user_data
                /\ conv'[u] = conv[u]]_vars

\* C12: every row of the reviews table has a rating in 1..5, whatever
\* rating_<n> callbacks and comments came before, and a row once stored is
\* neither changed nor removed: every step leaves the rows it found in place.
C12_RatingsInRangeAppendOnly ==
    /\ [](\A k \in DOMAIN reviews : reviews[k].rating \in Ratings)
    /\ [][/\ Len(reviews') >= Len(reviews)
          /\ \A k \in DOMAIN reviews : reviews'[k] = reviews[k]]_vars

\* a row is in the table, and the comment that came last was sent with a
\* rating outside 1..5 stored and was refused
C12_Witness ==
    /\ ev.kind = "comment"
    /\ msg = <<"error">>
    /\ user_data[ev.user].review_rating \in {<<r>> : r \in OutOfRange}
    /\ reviews /= <<>>

\* C13: skipping ends the review in both of its states and writes no row: the
\* skip_review button in REVIEW_RATING and the message /skip in REVIEW_COMMENT
\* each leave the conversation at END and the reviews table as it was.
C13_SkipEndsReviewWritesNothing ==
    [][\A u \in Users :
        (/\ ev'.user = u
         /\ \/ ev'.kind = "skip_review" /\ conv[u] = REVIEW_RATING
            \/ ev'.kind = "skip_command" /\ conv[u] = REVIEW_COMMENT)
        => /\ conv'[u] = END
           /\ reviews' = reviews]_vars

\* C14: after a confirm press the portal answered with success, the
\* reservation at the pressed index is the one stored for the review; the
\* leave_review and rating presses leave it in place; and a comment that
\* follows the press of a rating button r in 1..5 adds exactly one row to the
\* reviews table, with rating r, the comment typed, the id of the user and
\* the id of that reservation, and ends the conversation.
C14_ReviewOfConfirmedItem ==
    [][\A u \in Users :
        /\ (ev'.user = u /\ ev'.kind = "confirm" /\ ev'.resp = "ok")
              => user_data'[u].last_reservation
                   = <<user_data[u].reservations[ev'.idx + 1]>>
        /\ (ev'.user = u /\ ev'.kind \in {"leave_review", "rating"})
              => user_data'[u].last_reservation = user_data[u].last_reservation
        /\ (/\ ev'.user = u /\ ev'.kind = "comment"
            /\ ev.user = u /\ ev.kind = "rating" /\ ev.idx \in Ratings
            /\ user_data[u].last_reservation /= <<>>)
              => /\ \E c \in Comments :
                      reviews' = Append(reviews,
                          [user_id   |-> u,
                           food_id   |-> user_data[u].last_reservation[1].id,
                           food_name |-> user_data[u].last_reservation[1].name,
                           rating    |-> ev.idx,
                           comment   |-> c])
                 /\ conv'[u] = END]_vars

\* the review of a reservation rated with the lowest button is in the table
C14_Witness ==
    /\ ev.kind = "comment"
    /\ conv[ev.user] = END
    /\ user_data[ev.user].last_reservation /= <<>>
    /\ reviews = <<[user_id   |-> ev.user,
                    food_id   |-> user_data[ev.user].last_reservation[1].id,
                    food_name |-> user_data[ev.user].last_reservation[1].name,
                    rating    |-> MinRating,
                    comment   |-> "great"]>>

\* C15: at most one reservation is stored for the review of a user; after a
\* confirm press the portal answered with success it is the reservation of
\* that press, whatever was stored before, and a row written to the reviews
\* table carries the id of the reservation stored at that moment.
C15_OnePendingReview ==
    \A u \in Users :
        /\ Len(user_data[u].last_reservation) <= 1
        /\ (ev.user = u /\ ev.kind = "confirm" /\ ev.resp = "ok")
              => user_data[u].last_reservation
                   = <<user_data[u].reservations[ev.idx + 1]>>
        /\ (/\ ev.user = u /\ ev.kind = "comment" /\ msg = <<"review_saved">>
            /\ user_data[u].last_reservation /= <<>>)
              => reviews[Len(reviews)].food_id
                   = user_data[u].last_reservation[1].id

\* a second reservation succeeded while another one was stored for a review
\* that was not written
C15_Witness ==
    /\ ev.kind = "confirm"
    /\ ev.resp = "ok"
    /\ ev.pending /= <<>>
    /\ ev.pending /= user_data[ev.user].last_reservation
    /\ reviews = <<>>

\* C16: when the review ends, by the comment that writes the row, by
\* skip_review, by back or by /cancel, the reservation and the rating stored
\* for it are removed from user_data, so that no later comment writes a row
\* from them.
C16_PendingReviewCleared ==
    [][\A u \in Users :
        (/\ ev'.user = u
         /\ conv[u] \in {REVIEW_RATING, REVIEW_COMMENT}
         /\ ev'.kind \in {"comment", "skip_review", "back", "cancel"})
        => /\ user_data'[u].last_reservation = <<>>
           /\ user_data'[u].review_rating = <<>>]_vars

\* the rows of food_id among the first k rows of the reviews table, and the
\* sum of their ratings
KeyRows(food_id, k) == {j \in 1..k : reviews[j].food_id = food_id}

RECURSIVE KeySum(_, _)
KeySum(food_id, k) ==
    IF k = 0 THEN 0
    ELSE KeySum(food_id, k - 1)
           + (IF reviews[k].food_id = food_id THEN reviews[k].rating ELSE 0)

\* C17 as claimed: get_food_stats of a food returns as total_reviews the
\* number of rows of that food and as average_rating the mean of their
\* ratings (in tenths: ten times their sum divided by their number), and 0
\* and 0 when there is no such row, whatever rows of other foods are stored.
C17_AverageIsMean ==
    \A k \in DOMAIN calls :
        calls[k].op = "get_food_stats"
        => LET n == Cardinality(KeyRows(calls[k].arg, Len(reviews)))
               sum == KeySum(calls[k].arg, Len(reviews))
           IN  /\ calls[k].ret.total_reviews = n
               /\ calls[k].ret.average_rating * n = 10 * sum

\* C17 as amended: total_reviews is the number of rows of the food, and
\* average_rating is the mean of their ratings rounded to one decimal: it
\* differs from the mean by at most 0.05 and is the mean when the mean has no
\* more than one decimal; both are 0 when there is no such row.
C17_AverageIsRoundedMean ==
    \A k \in DOMAIN calls :
        calls[k].op = "get_food_stats"
        => LET n == Cardinality(KeyRows(calls[k].arg, Len(reviews)))
               sum == KeySum(calls[k].arg, Len(reviews))
               diff == calls[k].ret.average_rating * n - 10 * sum
           IN  /\ calls[k].ret.total_reviews = n
               /\ n = 0 => calls[k].ret.average_rating = 0
               /\ 2 * diff <= n /\ 2 * diff >= -n
               /\ (n > 0 /\ (10 * sum) % n = 0) => diff = 0

\* the statistics of a food were read whose ratings have a mean with more
\* than one decimal
C17_Witness ==
    /\ calls /= <<>>
    /\ calls[1].op = "get_food_stats"
    /\ calls[1].ret.total_reviews > 1
    /\ (10 * KeySum(calls[1].arg, Len(reviews))) % calls[1].ret.total_reviews /= 0

\* the _call_gemini_api calls among the calls of the handler that ran last
GeminiCalls == SelectSeq(calls, LAMBDA c : c.op = "_call_gemini_api")

\* C18: an ai_help press that found reservations gets a text from
\* get_food_recommendation whatever the outcomes of the models were, the
\* recommendation of a model or the static text for the failure of all of
\* them; the text is sent to the user, the handler ends the conversation as
\* it does after a recommendation, and user_sessions and user_data (the
\* login and the stored reservations) are what they were.
C18_RecommendationNeverFails ==
    [][\A u \in Users :
        (/\ ev'.user = u /\ ev'.kind = "ai_help" /\ ev'.resp = "ok"
         /\ calls'[1].ret /= <<>>)
        => LET asked == calls'[Len(calls')]
           IN  /\ asked.op = "get_food_recommendation"
               /\ asked.ret.kind \in {"model", "all_failed"}
               /\ asked.ret.kind = "model" => asked.ret.text /= <<>>
               /\ msg' = <<"ai_help_prompt", "ai_recommendation">>
               /\ conv'[u] = END
               /\ user_sessions' = user_sessions
               /\ user_sessions'[u].logged_in
               /\ user_data' = user_data]_vars

\* all four models failed, each in another way, for a user with stored
\* reservations
C18_Witness ==
    /\ ev.kind = "ai_help"
    /\ Len(calls) = 6
    /\ calls[6].ret.kind = "all_failed"
    /\ {calls[k].resp : k \in 2..5}
         = {"timeout", "status", "malformed", "empty_text"}
    /\ user_data[ev.user].reservations /= <<>>

\* the order of the models the module docstring gives (lines 3-10)
FallbackSequence ==
    <<"Gemini 2.5 Pro", "Gemini 2.5 Flash", "Gemini 2.0 Flash",
      "Gemini 1.5 Flash">>

\* C19: the models are called in the order 2.5 Pro, 2.5 Flash, 2.0 Flash,
\* 1.5 Flash: the k-th call is to the k-th model, every call but the last
\* failed (no text, an empty text or a text with an error indicator), so no
\* model is called after one answered; the text returned is the answer of
\* the model called last when it answered, and the text for the failure of
\* all after four failed calls.
C19_ModelsTriedInOrder ==
    (ev.kind = "ai_help" /\ Len(calls) > 1)
    => LET tried == GeminiCalls
           asked == calls[Len(calls)]
           n == Len(tried)
       IN  /\ n >= 1 /\ n <= 4
           /\ \A k \in 1..n : tried[k].arg = FallbackSequence[k]
           /\ \A k \in 1..(n - 1) : tried[k].resp /= "answer"
           /\ IF tried[n].resp = "answer"
              THEN asked.ret = [kind |-> "model", model |-> FallbackSequence[n],
                                text |-> tried[n].ret[1]]
              ELSE n = 4 /\ asked.ret.kind = "all_failed"

\* the third model answered after the first sent a text with an error
\* indicator and the second timed out
C19_Witness ==
    /\ ev.kind = "ai_help"
    /\ Len(GeminiCalls) = 3
    /\ GeminiCalls[1].resp = "error_answer"
    /\ GeminiCalls[2].resp = "timeout"
    /\ calls[Len(calls)].ret.model = "Gemini 2.0 Flash"

\* C20: two presses of back in a row from the detail view of a reservation
\* raise nothing and leave the conversation at END with no reservation
\* selected: no confirm_<i> callback finds a reservation to submit until the
\* reservations are fetched and one is selected again.
C20_BackTwiceClearsSelection ==
    \A u \in Users :
        (ev.user = u /\ ev.kind = "back" /\ ev.trail = "back_back")
        => /\ ev.resp /= "fault"
           /\ conv[u] = END
           /\ \A i \in 0..(MaxItems - 1) :
                ~IndexValid(i, user_data[u].reservations)

\* C21: the body make_reservation posts for a confirm press with
\* index i is reservation i of the stored list as it was fetched, with all
\* its fields under their names.
C21_PayloadIsFetchedItem ==
    (ev.kind = "confirm" /\ calls /= <<>>)
    => \A k \in DOMAIN calls[1].sent :
         calls[1].sent[k] = user_data[ev.user].reservations[ev.idx + 1]

\* C22: the handler of a password message asks Telegram to delete the message
\* before it calls login(), whether the login then succeeds or fails and
\* whether or not the message gets deleted, and no password is ever held by
\* user_sessions or by the user_data of a user (username is the one text
\* either of them keeps).
C22_PasswordDeletedFirstNeverStored ==
    /\ ev.kind = "password"
        => /\ \E j \in DOMAIN calls : calls[j].op = "login"
           /\ \A j \in DOMAIN calls :
                calls[j].op = "login"
                => \E i \in 1..(j - 1) : calls[i].op = "message.delete"
    /\ \A u \in Users, text \in Passwords :
        /\ user_sessions[u].username /= <<strip(text)>>
        /\ user_sessions[u].username /= strip(text)
        /\ user_data[u].username /= <<strip(text)>>

\* a login that succeeded although the password message was not deleted
C22_Witness ==
    /\ ev.kind = "password"
    /\ Len(calls) = 2
    /\ calls[1].op = "message.delete" /\ ~calls[1].ret
    /\ calls[2].op = "login" /\ calls[2].ret
    /\ calls[2].arg = <<"secret">>
    /\ user_sessions[ev.user].logged_in

\* C23: a text message in LOGIN_USERNAME stores the username and moves on to
\* LOGIN_PASSWORD only when the text is not empty once stripped; a text of
\* blanks leaves the conversation in LOGIN_USERNAME and user_data untouched.
C23_EmptyUsernameRejected ==
    [][\A u \in Users :
        (ev'.user = u /\ ev'.kind = "username")
        => \/ /\ conv'[u] = LOGIN_PASSWORD
              /\ user_data'[u].username /= <<>>
              /\ user_data'[u].username[1] /= <<>>
           \/ /\ conv'[u] = LOGIN_USERNAME
              /\ user_data' = user_data]_vars

\* C27: the handler of a password message calls login() at most once, that
\* of a view_reservations press get_reservations() at most once and that of
\* a confirm_ press make_reservation() at most once, whatever the portal
\* answers, a network fault included; no handler calls another method of
\* api_client than its own, so there are no more portal calls than updates.
PortalCalls ==
    SelectSeq(calls, LAMBDA c :
        c.op \in {"login", "get_reservations", "make_reservation"})

C27_OnePortalCallPerUpdate ==
    /\ Len(PortalCalls) <= 1
    /\ \A k \in DOMAIN PortalCalls :
         /\ PortalCalls[k].op = "login" => ev.kind = "password"
         /\ PortalCalls[k].op = "get_reservations"
              => ev.kind \in {"view_reservations", "ai_help"}
         /\ PortalCalls[k].op = "make_reservation" => ev.kind = "confirm"

\* a login() call that ended with a network fault, and was the only one
C27_Witness ==
    /\ ev.kind = "password"
    /\ ev.resp = "network"
    /\ Len(PortalCalls) = 1
    /\ PortalCalls[1].resp = "network"
    /\ ~PortalCalls[1].ret

\* C24: after a view_reservations press of a logged-in user the reservations
\* stored for the user are the list get_reservations() just returned from
\* the answer of the portal, the empty list included, so that no index of a
\* longer list stored before passes the test of reserve_ and confirm_.
C24_StoredListIsLastFetch ==
    \A u \in Users :
        (ev.user = u /\ ev.kind = "view_reservations" /\ ev.resp = "ok"
           /\ user_sessions[u].logged_in)
        => /\ calls /= <<>>
           /\ user_data[u].reservations = calls[1].ret
           /\ \A i \in 0..(MaxItems - 1) :
                IndexValid(i, user_data[u].reservations) => i < Len(calls[1].ret)

\* C25: when get_reservations() fails during a view_reservations press (a
\* status other than 200, a body without the list, a network fault), the
\* user is sent a text and the conversation state, the login, the stored
\* reservations and the staged review are what they were before the press.
C25_FailedFetchChangesNothing ==
    [][\A u \in Users :
        (ev'.user = u /\ ev'.kind = "view_reservations"
           /\ ev'.resp \in FetchTags \ {"ok"})
        => /\ msg' /= <<>>
           /\ conv'[u] = conv[u]
           /\ user_sessions'[u] = user_sessions[u]
           /\ user_data'[u] = user_data[u]]_vars

\* C28: the reservation a confirm_ press submits is the one the detail view
\* with that button showed: when the user opened the detail view of index i,
\* fetched the reservations again and then pressed confirm_<i> of the
\* detail view, make_reservation gets the id of the reservation shown.
C28_ConfirmSubmitsShownItem ==
    [][(/\ ev'.kind = "confirm"
        /\ ev'.user = ev.user
        /\ ev.detail /= <<>>
        /\ ev.detail[1].idx = ev'.idx
        /\ calls' /= <<>>)
       => calls'[1].arg = ev.detail[1].item.id]_vars

\* C29: a row of the reviews table is written for a user only for a
\* reservation that user made: every row has a food_id that is not empty,
\* the row a comment saves is for the reservation staged for its user by a
\* successful confirm_, and a leave_review or rating_ press of a user with
\* nothing staged leads to no row.
C29_ReviewOnlyOfOwnReservation ==
    /\ \A k \in DOMAIN reviews : reviews[k].food_id /= ""
    /\ (ev.kind = "comment" /\ msg = <<"review_saved">>)
        => /\ ev.pending /= <<>>
           /\ reviews[Len(reviews)].user_id = ev.user
           /\ reviews[Len(reviews)].food_id = ev.pending[1].id

\* C30: make_reservation is called for a user only while the user is logged
\* in: in every reachable state a user with stored reservations has a
\* user_sessions entry with logged_in, and so has the user of every
\* make_reservation call.
C30_ReservationsOnlyWhenLoggedIn ==
    /\ \A u \in Users :
         user_data[u].reservations /= <<>> => user_sessions[u].logged_in
    /\ \A k \in DOMAIN calls :
         calls[k].op = "make_reservation"
         => user_sessions[calls[k].user].logged_in

\* a reservation sent to the portal for a user who is logged in
C30_Witness ==
    /\ ev.kind = "confirm"
    /\ calls /= <<>>
    /\ calls[1].op = "make_reservation"
    /\ calls[1].sent /= <<>>
    /\ user_sessions[ev.user].logged_in
    /\ user_data[ev.user].reservations /= <<>>

\* C26: the updates of one user are handled one after the other: while a
\* handler of the user waits for the portal no other handler of that user
\* has started, so no two confirm_ presses of a user are in flight together.
C26_OneHandlerPerUser ==
    \A i, j \in DOMAIN inflight :
        inflight[i].user = inflight[j].user => i = j

\* a confirm_ press waits for make_reservation() while the confirm_ button
\* is still there for a second press
C26_Witness ==
    /\ Len(inflight) = 1
    /\ inflight[1].kind = "confirm"
    /\ B("confirm", inflight[1].idx) \in Screen(inflight[1].user)
    /\ IndexValid(inflight[1].idx, user_data[inflight[1].user].reservations)

\* C31: the logged_in entry of a user never goes away: once a login of the
\* user succeeded, no update of this user or of another one (a failed
\* login, back, /cancel, a failed fetch or reservation, another user's
\* login) removes the entry from user_sessions or clears logged_in.
C31_LoggedInIsMonotone ==
    [][\A u \in Users :
        user_sessions[u].logged_in
        => /\ user_sessions'[u].logged_in
           /\ user_sessions'[u] /= NoSession]_vars

\* a login of a logged-in user failed while another user is logged in too
C31_Witness ==
    /\ ev.kind = "password"
    /\ ev.user = 1
    /\ ev.resp /= "ok"
    /\ user_sessions[1].logged_in
    /\ user_sessions[2].logged_in

\* C32: button_handler runs to its end for every button the bot puts on a
\* message, in every conversation state: no press ends in an exception that
\* nothing catches, the press of the help button included, and after a help
\* press the help text is in the chat and the conversation is at END.
C32_EveryButtonHandled ==
    /\ ev.resp /= "fault"
    /\ ev.kind = "help"
        => /\ msg /= <<>>
           /\ conv[ev.user] = END

=============================================================================
